---------------------------- MODULE Spec2Model ----------------------------
(***************************************************************************)
(* Model of the Hookmark MCP server (src/src/index.ts): seven tools that   *)
(* translate validated parameters into one invocation of the `hook` CLI    *)
(* through a shell command line, and reshape its outcome into a response.  *)
(*                                                                         *)
(* A JavaScript string is modelled as a sequence of one-character strings, *)
(* so that escaping, trimming, regular-expression matching and template    *)
(* interpolation are computed character by character.                      *)
(***************************************************************************)
EXTENDS Integers, Sequences, FiniteSets, TLC

(***************************************************************************)
(* State of a session of several calls.                                    *)
(***************************************************************************)
VARIABLES
  session,   \* per server process, the calls delivered to it, in delivery
             \* order: [call, pc, data, args, outcome, result, response] with
             \* pc "pending", "exec" (blocked in execSync) or "done"
  order,     \* per server process, the calls in the order they were handled
  replies    \* per server process, the calls in the order of their responses

(***************************************************************************)
(* Bounds of the model.                                                    *)
(***************************************************************************)
\* longest string, in characters, drawn for the escaping round trip
MaxLen == 3
\* longest CLI output, in fragments (see OutFrags), drawn for a process
MaxFrags == 3
\* granularity, in milliseconds, at which the model observes the wall clock
TickMs == 10000
\* most calls delivered to one server process
MaxCalls == 2

(***************************************************************************)
(* Program constants.                                                      *)
(***************************************************************************)
\* execSync option `timeout: 30_000`
TIMEOUT_MS == 30000

\* default of HOOK_CLI when the environment does not override it
HOOK_CLI == <<"/", "o", "p", "t", "/", "h", "o", "m", "e", "b", "r", "e", "w", "/", "l", "i", "b", "/", "r", "u", "b", "y", "/", "g", "e", "m", "s", "/", "4", ".", "0", ".", "0", "/", "b", "i", "n", "/", "h", "o", "o", "k">>

(***************************************************************************)
(* String helpers (String.prototype.trim, Array.prototype.join, ...).      *)
(***************************************************************************)
\* what \s and trim() treat as white space, among the characters modelled
WhiteSpace == {" ", "\t", "\n", "\r"}

RECURSIVE TrimStart(_)
TrimStart(s) ==
  IF s = <<>> THEN s
  ELSE IF Head(s) \in WhiteSpace THEN TrimStart(Tail(s)) ELSE s

RECURSIVE TrimEnd(_)
TrimEnd(s) ==
  IF s = <<>> THEN s
  ELSE IF s[Len(s)] \in WhiteSpace THEN TrimEnd(SubSeq(s, 1, Len(s) - 1)) ELSE s

\* a plausible slip: only the leading white space is removed
TrimStartOnly(s) == TrimStart(s)

\* String.prototype.trim
Trim(s) == TrimEnd(TrimStart(s))

\* Array.prototype.join(sep) over an array of strings
RECURSIVE Join(_, _)
Join(parts, sep) ==
  IF parts = <<>> THEN <<>>
  ELSE IF Len(parts) = 1 THEN parts[1]
  ELSE parts[1] \o sep \o Join(Tail(parts), sep)

\* whether `needle` occurs in `hay` as a contiguous substring
Contains(hay, needle) ==
  \E i \in 1..(Len(hay) - Len(needle) + 1) :
     SubSeq(hay, i, i + Len(needle) - 1) = needle

\* whether `s` starts with `prefix`
StartsWith(s, prefix) ==
  /\ Len(s) >= Len(prefix)
  /\ SubSeq(s, 1, Len(prefix)) = prefix

(***************************************************************************)
(* shellEscape and the command line of runHook.                            *)
(***************************************************************************)
\* s.replace(/'/g, "'\\''")
RECURSIVE ReplaceQuotes(_)
ReplaceQuotes(s) ==
  IF s = <<>> THEN <<>>
  ELSE (IF Head(s) = "'" THEN <<"'", "\\", "'", "'">> ELSE <<Head(s)>>)
         \o ReplaceQuotes(Tail(s))

\* a plausible slip: the argument is wrapped but embedded quotes are kept
shellEscapeNoReplace(s) == <<"'">> \o s \o <<"'">>

\* `'${s.replace(/'/g, "'\\''")}'`
shellEscape(s) == <<"'">> \o ReplaceQuotes(s) \o <<"'">>

\* words.map((a) => shellEscape(a)).join(" ")
EscapeAndJoin(words) ==
  Join([i \in 1..Len(words) |-> shellEscape(words[i])], <<" ">>)

\* const cmd = [HOOK_CLI, ...args].map((a) => shellEscape(a)).join(" ")
CommandLine(args) == EscapeAndJoin(<<HOOK_CLI>> \o args)

(***************************************************************************)
(* The shell that execSync hands the command line to (/bin/sh -c cmd):     *)
(* POSIX word splitting with single quotes, double quotes and backslash.   *)
(* Anything a shell would expand or treat as an operator when unquoted     *)
(* makes the parse not ok: the words are then no longer the literal text.  *)
(***************************************************************************)
ShellBlank == {" ", "\t"}
ShellMeta == {"$", ";", "&", "|", "<", ">", "(", ")", "\n", "#", "*", "?", "[", "~"}

\* the state of the shell's scanner: the words completed, the word being
\* read (cur, a word only if inWord), and the quoting mode: "plain",
\* "single", "double", or "plainEsc" and "doubleEsc" right after a backslash
ShStart == [ok |-> TRUE, words |-> <<>>, cur |-> <<>>, inWord |-> FALSE, mode |-> "plain"]

\* the scanner reads character c
ShStep(st, c) ==
  CASE ~st.ok -> st
    [] st.mode = "single" ->
         IF c = "'" THEN [st EXCEPT !.mode = "plain"]
         ELSE [st EXCEPT !.cur = Append(@, c)]
    [] st.mode = "double" ->
         IF c = "\"" THEN [st EXCEPT !.mode = "plain"]
         ELSE IF c = "\\" THEN [st EXCEPT !.mode = "doubleEsc"]
         ELSE IF c = "$" THEN [st EXCEPT !.ok = FALSE]
         ELSE [st EXCEPT !.cur = Append(@, c)]
    [] st.mode = "doubleEsc" ->
         IF c \in {"$", "\"", "\\"}
           THEN [st EXCEPT !.cur = Append(@, c), !.mode = "double"]
           ELSE [st EXCEPT !.cur = @ \o <<"\\", c>>, !.mode = "double"]
    [] st.mode = "plainEsc" ->
         IF c = "\n" THEN [st EXCEPT !.mode = "plain"]
         ELSE [st EXCEPT !.cur = Append(@, c), !.inWord = TRUE, !.mode = "plain"]
    [] OTHER ->
         IF c \in ShellBlank
           THEN [st EXCEPT !.words = IF st.inWord THEN Append(@, st.cur) ELSE @,
                           !.cur = <<>>, !.inWord = FALSE]
         ELSE IF c = "'" THEN [st EXCEPT !.inWord = TRUE, !.mode = "single"]
         ELSE IF c = "\"" THEN [st EXCEPT !.inWord = TRUE, !.mode = "double"]
         ELSE IF c = "\\" THEN [st EXCEPT !.mode = "plainEsc"]
         ELSE IF c \in ShellMeta THEN [st EXCEPT !.ok = FALSE]
         ELSE [st EXCEPT !.cur = Append(@, c), !.inWord = TRUE]

\* the scanner reads cmd[lo..hi], left to right, starting in state st
RECURSIVE ShScan(_, _, _, _)
ShScan(cmd, lo, hi, st) ==
  IF lo > hi THEN st
  ELSE IF lo = hi THEN ShStep(st, cmd[lo])
  ELSE LET mid == (lo + hi) \div 2
           left == ShScan(cmd, lo, mid, st)
       IN  IF left.ok THEN ShScan(cmd, mid + 1, hi, left) ELSE left

\* the argument vector the shell derives from a command line: not ok if a
\* quote is left open or an unquoted character is special to the shell
ShellParse(cmd) ==
  LET st == ShScan(cmd, 1, Len(cmd), ShStart)
      end == IF st.mode = "plainEsc"
               THEN [st EXCEPT !.cur = Append(@, "\\"), !.inWord = TRUE, !.mode = "plain"]
               ELSE st
  IN  [ok |-> end.ok /\ end.mode = "plain",
       words |-> IF end.inWord THEN Append(end.words, end.cur) ELSE end.words]

(***************************************************************************)
(* Parameter values as the transport delivers them (JSON values).  The     *)
(* field t is the JavaScript type; s is the text of a string, b the value  *)
(* of a boolean.                                                           *)
(***************************************************************************)
Absent == [t |-> "undefined", s |-> <<>>, b |-> FALSE]
Str(s) == [t |-> "string", s |-> s, b |-> FALSE]
Bool(b) == [t |-> "boolean", s |-> <<>>, b |-> b]
Num == [t |-> "number", s |-> <<>>, b |-> FALSE]

\* JavaScript truthiness of a parameter value: if (item), if (files_only)
Truthy(v) ==
  \/ v.t = "string" /\ v.s # <<>>
  \/ v.t = "boolean" /\ v.b
  \/ v.t = "number"

ParamNames ==
  {"item", "item_a", "item_b", "query", "source", "destination", "app",
   "format", "files_only", "names_only", "markdown"}

Tools ==
  {"hookmark_link", "hookmark_connect", "hookmark_list", "hookmark_search",
   "hookmark_remove", "hookmark_clone", "hookmark_frontmost"}

(***************************************************************************)
(* The zod schemas of the seven registerTool calls.                        *)
(***************************************************************************)
Formats == {<<"p", "a", "t", "h", "s">>, <<"h", "o", "o", "k", "s">>, <<"m", "a", "r", "k", "d", "o", "w", "n">>, <<"v", "e", "r", "b", "o", "s", "e">>}

\* a plausible slip: z.string() without .min(1)
zStringNoMin ==
  [kind |-> "string", min |-> 0, optional |-> FALSE, options |-> {}, dflt |-> Absent]

\* z.string().min(1)
zStringMin1 ==
  [kind |-> "string", min |-> 1, optional |-> FALSE, options |-> {}, dflt |-> Absent]

\* z.string().optional()
zStringOptional ==
  [kind |-> "string", min |-> 0, optional |-> TRUE, options |-> {}, dflt |-> Absent]

\* z.enum(["paths", "hooks", "markdown", "verbose"]).default(d)
zFormat(d) ==
  [kind |-> "enum", min |-> 0, optional |-> TRUE, options |-> Formats, dflt |-> Str(d)]

\* z.boolean().default(false)
zBooleanFalse ==
  [kind |-> "boolean", min |-> 0, optional |-> TRUE, options |-> {}, dflt |-> Bool(FALSE)]

inputSchema(tool) ==
  CASE tool = "hookmark_link" -> [item |-> zStringMin1]
    [] tool = "hookmark_connect" -> [item_a |-> zStringMin1, item_b |-> zStringMin1]
    [] tool = "hookmark_list" ->
         [item |-> zStringOptional, format |-> zFormat(<<"p", "a", "t", "h", "s">>),
          files_only |-> zBooleanFalse]
    [] tool = "hookmark_search" ->
         [query |-> zStringMin1, format |-> zFormat(<<"m", "a", "r", "k", "d", "o", "w", "n">>),
          names_only |-> zBooleanFalse, files_only |-> zBooleanFalse]
    [] tool = "hookmark_remove" -> [item_a |-> zStringMin1, item_b |-> zStringMin1]
    [] tool = "hookmark_clone" -> [source |-> zStringMin1, destination |-> zStringMin1]
    [] tool = "hookmark_frontmost" -> [app |-> zStringMin1, markdown |-> zBooleanFalse]

\* zod's parse of one value against one rule: whether it passes, and the
\* value the handler receives (the default for an absent defaulted value)
ParseValue(rule, v) ==
  IF v.t = "undefined"
    THEN [ok |-> rule.optional, value |-> rule.dflt]
  ELSE IF rule.kind = "string"
    THEN [ok |-> v.t = "string" /\ Len(v.s) >= rule.min, value |-> v]
  ELSE IF rule.kind = "enum"
    THEN [ok |-> v.t = "string" /\ v.s \in rule.options, value |-> v]
  ELSE [ok |-> v.t = "boolean", value |-> v]

\* the validation the server applies before it calls a tool's callback
Validate(tool, params) ==
  LET schema == inputSchema(tool)
  IN  [ok |-> \A k \in DOMAIN schema : ParseValue(schema[k], params[k]).ok,
       data |-> [k \in ParamNames |->
                   IF k \in DOMAIN schema
                     THEN ParseValue(schema[k], params[k]).value
                     ELSE Absent]]

(***************************************************************************)
(* The argument vector each handler passes to runHook.                     *)
(***************************************************************************)
\* a plausible slip: hookmark_frontmost pushes the flag after the operand
frontmostArgsFlagLast(d) ==
  <<<<"f", "r", "o", "m">>, d.app.s>> \o (IF Truthy(d.markdown) THEN <<<<"-", "-", "m", "a", "r", "k", "d", "o", "w", "n">>>> ELSE <<>>)

\* a plausible slip: the args array is declared once at module level, so a
\* call pushes onto what the call handled before it left there
linkArgsSharedArray(d) ==
  (IF order["main"] = <<>>
     THEN <<>>
     ELSE session["main"][order["main"][Len(order["main"])]].args)
    \o <<<<"c", "l", "i", "p">>, d.item.s>>

\* a plausible slip: hookmark_link (hook clip) runs hookmark_connect's hook link
linkArgsLinkToken(d) == <<<<"l", "i", "n", "k">>, d.item.s>>

linkArgs(d) == <<<<"c", "l", "i", "p">>, d.item.s>>

connectArgs(d) == <<<<"l", "i", "n", "k">>, d.item_a.s, d.item_b.s>>

\* a plausible slip: the item is appended whenever it was sent, the empty
\* string included
listArgsPushGiven(d) ==
  <<<<"l", "i", "s", "t">>, <<"-", "o">>, d.format.s>>
    \o (IF Truthy(d.files_only) THEN <<<<"-", "-", "f", "i", "l", "e", "s", "_", "o", "n", "l", "y">>>> ELSE <<>>)
    \o (IF d.item.t = "string" THEN <<d.item.s>> ELSE <<>>)

listArgs(d) ==
  <<<<"l", "i", "s", "t">>, <<"-", "o">>, d.format.s>>
    \o (IF Truthy(d.files_only) THEN <<<<"-", "-", "f", "i", "l", "e", "s", "_", "o", "n", "l", "y">>>> ELSE <<>>)
    \o (IF Truthy(d.item) THEN <<d.item.s>> ELSE <<>>)

searchArgs(d) ==
  <<<<"f", "i", "n", "d">>, <<"-", "o">>, d.format.s>>
    \o (IF Truthy(d.names_only) THEN <<<<"-", "-", "n", "a", "m", "e", "s", "_", "o", "n", "l", "y">>>> ELSE <<>>)
    \o (IF Truthy(d.files_only) THEN <<<<"-", "-", "f", "i", "l", "e", "s", "_", "o", "n", "l", "y">>>> ELSE <<>>)
    \o <<d.query.s>>

removeArgs(d) == <<<<"r", "e", "m", "o", "v", "e">>, d.item_a.s, d.item_b.s>>

cloneArgs(d) == <<<<"c", "l", "o", "n", "e">>, d.source.s, d.destination.s>>

frontmostArgs(d) ==
  <<<<"f", "r", "o", "m">>>> \o (IF Truthy(d.markdown) THEN <<<<"-", "-", "m", "a", "r", "k", "d", "o", "w", "n">>>> ELSE <<>>)
    \o <<d.app.s>>

HandlerArgs(tool, d) ==
  CASE tool = "hookmark_link" -> linkArgs(d)
    [] tool = "hookmark_connect" -> connectArgs(d)
    [] tool = "hookmark_list" -> listArgs(d)
    [] tool = "hookmark_search" -> searchArgs(d)
    [] tool = "hookmark_remove" -> removeArgs(d)
    [] tool = "hookmark_clone" -> cloneArgs(d)
    [] tool = "hookmark_frontmost" -> frontmostArgs(d)

(***************************************************************************)
(* execSync: what the child process did, and the error execSync throws.    *)
(* An outcome is [kind, stdout, stderr]: kind "exit0" (status zero),       *)
(* "nonzero" (another status), "timeout" (killed when the timeout          *)
(* elapsed) or "spawnfail" (the shell could not be started: no output is   *)
(* captured and stderr is null, modelled as the empty text).               *)
(***************************************************************************)
\* the message of the error execSync throws for a failed command
ExecErrorMessage(cmd, o) ==
  CASE o.kind = "nonzero" ->
         <<"C", "o", "m", "m", "a", "n", "d", " ", "f", "a", "i", "l", "e", "d", ":", " ">> \o cmd
           \o (IF o.stderr # <<>> THEN <<"\n">> \o o.stderr ELSE <<>>)
    [] o.kind = "timeout" -> <<"s", "p", "a", "w", "n", "S", "y", "n", "c", " ", "/", "b", "i", "n", "/", "s", "h", " ", "E", "T", "I", "M", "E", "D", "O", "U", "T">>
    [] OTHER -> <<"s", "p", "a", "w", "n", "S", "y", "n", "c", " ", "/", "b", "i", "n", "/", "s", "h", " ", "E", "N", "O", "E", "N", "T">>

\* a || b on strings: the first operand unless it is the empty string
Or(a, b) == IF a # <<>> THEN a ELSE b

\* a plausible slip: the fallback of the detail is stdout, not the message
runHookStdoutFallback(args, o) ==
  IF o.kind = "exit0"
    THEN [threw |-> FALSE, value |-> Trim(o.stdout)]
    ELSE [threw |-> TRUE,
          value |-> Or(Trim(Or(o.stderr, o.stdout)), <<"h", "o", "o", "k", " ">> \o args[1] \o <<" ", "f", "a", "i", "l", "e", "d">>)]

\* runHook from the point where execSync returns or throws: the trimmed
\* output, or the message of the Error it throws.  Every error execSync
\* throws for a command carries a stderr property, so the rethrow of line
\* 72 is not taken for these outcomes.
runHook(args, o) ==
  IF o.kind = "exit0"
    THEN [threw |-> FALSE, value |-> Trim(o.stdout)]
    ELSE LET message == ExecErrorMessage(CommandLine(args), o)
             detail == Trim(Or(o.stderr, Or(message, <<>>)))
         IN  [threw |-> TRUE,
              value |-> Or(detail, <<"h", "o", "o", "k", " ">> \o args[1] \o <<" ", "f", "a", "i", "l", "e", "d">>)]

(***************************************************************************)
(* extractHookUrl: text.match(/hook:\/\/[^\s'"]+/), leftmost and greedy.   *)
(***************************************************************************)
HookScheme == <<"h", "o", "o", "k", ":", "/", "/">>

\* the class [^\s'"]
UrlChar(c) == c \notin (WhiteSpace \cup {"'", "\""})

\* the scheme stands at position i and at least one class character follows
MatchesAt(text, i) ==
  /\ i + Len(HookScheme) <= Len(text)
  /\ SubSeq(text, i, i + Len(HookScheme) - 1) = HookScheme
  /\ UrlChar(text[i + Len(HookScheme)])

\* the last position of the run of class characters that holds position j
RECURSIVE RunEnd(_, _)
RunEnd(text, j) ==
  IF j < Len(text) /\ UrlChar(text[j + 1]) THEN RunEnd(text, j + 1) ELSE j

RECURSIVE MatchFrom(_, _)
MatchFrom(text, i) ==
  IF i > Len(text) THEN [found |-> FALSE, url |-> <<>>]
  ELSE IF MatchesAt(text, i)
    THEN [found |-> TRUE,
          url |-> SubSeq(text, i, RunEnd(text, i + Len(HookScheme)))]
  ELSE MatchFrom(text, i + 1)

\* a plausible slip: the match is tested but the whole text is returned
extractHookUrlWholeText(text) ==
  [found |-> MatchFrom(text, 1).found, url |-> text]

extractHookUrl(text) == MatchFrom(text, 1)

(***************************************************************************)
(* Responses.  isError = FALSE stands for a response without the isError   *)
(* property.  kind is "result" for a tool result and "rejected" for the    *)
(* validation error the server raises before any callback runs.            *)
(***************************************************************************)
NoResponse == [kind |-> "none", text |-> <<>>, isError |-> FALSE]
Rejected == [kind |-> "rejected", text |-> <<>>, isError |-> FALSE]

\* { content: [{ type: "text", text }] }
textResponse(text) == [kind |-> "result", text |-> text, isError |-> FALSE]

\* a plausible slip: the error text is returned without the isError flag
errorResponseUnflagged(msg) ==
  [kind |-> "result", text |-> <<"E", "r", "r", "o", "r", ":", " ">> \o msg, isError |-> FALSE]

\* errorResponse(err) for an Error whose message is msg
errorResponse(msg) ==
  [kind |-> "result", text |-> <<"E", "r", "r", "o", "r", ":", " ">> \o msg, isError |-> TRUE]

(***************************************************************************)
(* The handlers from the return of runHook on: r is what runHook returned  *)
(* or threw.                                                               *)
(***************************************************************************)
linkResponse(d, r) ==
  IF r.threw THEN errorResponse(r.value)
  ELSE LET hookUrl == extractHookUrl(r.value)
       IN  IF hookUrl.found /\ hookUrl.url # <<>> THEN textResponse(hookUrl.url)
           ELSE textResponse(Or(r.value,
                  <<"H", "o", "o", "k", "m", "a", "r", "k", " ", "U", "R", "L", " ", "f", "o", "r", " ", "'">> \o d.item.s
                    \o <<"'", " ", "c", "o", "p", "i", "e", "d", " ", "t", "o", " ", "c", "l", "i", "p", "b", "o", "a", "r", "d", ".", " ", "P", "a", "s", "t", "e", " ", "t", "o", " ", "r", "e", "t", "r", "i", "e", "v", "e", " ", "t", "h", "e", " ", "U", "R", "L", ".">>))

connectResponse(d, r) ==
  IF r.threw THEN errorResponse(r.value)
  ELSE textResponse(Or(r.value,
         <<"H", "o", "o", "k", " ", "c", "r", "e", "a", "t", "e", "d", " ", "b", "e", "t", "w", "e", "e", "n", " ", "'">> \o d.item_a.s \o <<"'", " ", "a", "n", "d", " ", "'">> \o d.item_b.s \o <<"'", ".">>))

\* a plausible slip: the empty-output branch returns the empty output
listResponseNoEmptyCase(d, r) ==
  IF r.threw THEN errorResponse(r.value) ELSE textResponse(r.value)

listResponse(d, r) ==
  IF r.threw THEN errorResponse(r.value)
  ELSE IF r.value = <<>>
    THEN textResponse(IF Truthy(d.item)
                        THEN <<"N", "o", " ", "h", "o", "o", "k", "s", " ", "f", "o", "u", "n", "d", " ", "f", "o", "r", " ", "'">> \o d.item.s \o <<"'", ".">>
                        ELSE <<"N", "o", " ", "H", "o", "o", "k", "m", "a", "r", "k", " ", "b", "o", "o", "k", "m", "a", "r", "k", "s", " ", "f", "o", "u", "n", "d", ".">>)
  ELSE textResponse(r.value)

searchResponse(d, r) ==
  IF r.threw THEN errorResponse(r.value)
  ELSE IF r.value = <<>>
    THEN textResponse(<<"N", "o", " ", "b", "o", "o", "k", "m", "a", "r", "k", "s", " ", "f", "o", "u", "n", "d", " ", "m", "a", "t", "c", "h", "i", "n", "g", " ", "'">> \o d.query.s \o <<"'", ".">>)
  ELSE textResponse(r.value)

removeResponse(d, r) ==
  IF r.threw THEN errorResponse(r.value)
  ELSE textResponse(Or(r.value,
         <<"H", "o", "o", "k", " ", "r", "e", "m", "o", "v", "e", "d", " ", "b", "e", "t", "w", "e", "e", "n", " ", "'">> \o d.item_a.s \o <<"'", " ", "a", "n", "d", " ", "'">> \o d.item_b.s \o <<"'", ".">>))

\* a plausible slip: the fallback message is missing
cloneResponseNoFallback(d, r) ==
  IF r.threw THEN errorResponse(r.value) ELSE textResponse(r.value)

cloneResponse(d, r) ==
  IF r.threw THEN errorResponse(r.value)
  ELSE textResponse(Or(r.value,
         <<"C", "l", "o", "n", "e", "d", " ", "h", "o", "o", "k", "s", " ", "f", "r", "o", "m", " ", "'">> \o d.source.s \o <<"'", " ", "t", "o", " ", "'">> \o d.destination.s \o <<"'", ".">>))

frontmostResponse(d, r) ==
  IF r.threw THEN errorResponse(r.value)
  ELSE IF r.value = <<>>
    THEN textResponse(<<"C", "o", "u", "l", "d", " ", "n", "o", "t", " ", "g", "e", "t", " ", "a", " ", "H", "o", "o", "k", "m", "a", "r", "k", " ", "U", "R", "L", " ", "f", "r", "o", "m", " ", "'">> \o d.app.s
           \o <<"'", ".", " ", "M", "a", "k", "e", " ", "s", "u", "r", "e", " ", "t", "h", "e", " ", "a", "p", "p", " ", "i", "s", " ", "r", "u", "n", "n", "i", "n", "g", " ", "a", "n", "d", " ", "h", "a", "s", " ", "a", "n", " ", "a", "c", "t", "i", "v", "e", " ", "d", "o", "c", "u", "m", "e", "n", "t", ".">>)
  ELSE textResponse(r.value)

HandlerResponse(tool, d, r) ==
  CASE tool = "hookmark_link" -> linkResponse(d, r)
    [] tool = "hookmark_connect" -> connectResponse(d, r)
    [] tool = "hookmark_list" -> listResponse(d, r)
    [] tool = "hookmark_search" -> searchResponse(d, r)
    [] tool = "hookmark_remove" -> removeResponse(d, r)
    [] tool = "hookmark_clone" -> cloneResponse(d, r)
    [] tool = "hookmark_frontmost" -> frontmostResponse(d, r)

(***************************************************************************)
(* State.                                                                  *)
(***************************************************************************)
VARIABLES
  pc,        \* "idle", "received" (a call was delivered), "exec" (the handler
             \* is blocked in execSync), "done" (the response is computed)
  call,      \* the delivered call: [tool, params]
  data,      \* the validated parameters the handler receives
  args,      \* the argument vector the handler passed to runHook
  cmd,       \* the command line runHook passed to execSync
  procArgv,  \* the argument vector of the child process, as the shell parsed it
  elapsed,   \* milliseconds the child process has been running
  outcome,   \* what the child process did
  result,    \* what runHook returned or threw
  response,  \* the response of the call
  spawned,   \* child processes spawned for the call
  escPc,     \* round trip of the escaping: "off", "input", "built", "parsed"
  escIn,     \* round trip: the words to escape
  escCmd,    \* round trip: the escaped command line
  escOut     \* round trip: the shell's parse of the command line

vars ==
  <<pc, call, data, args, cmd, procArgv, elapsed, outcome, result, response,
    spawned, escPc, escIn, escCmd, escOut, session, order, replies>>

callVars ==
  <<pc, call, data, args, cmd, procArgv, elapsed, outcome, result, response, spawned>>

escVars == <<escPc, escIn, escCmd, escOut>>

sessVars == <<session, order, replies>>

NoParams == [k \in ParamNames |-> Absent]
NoCall == [tool |-> "none", params |-> NoParams]
NoOutcome == [kind |-> "none", stdout |-> <<>>, stderr |-> <<>>]
NoResult == [threw |-> FALSE, value |-> <<>>]
NoParse == [ok |-> FALSE, words |-> <<>>]

(***************************************************************************)
(* Inputs: the calls a client can send and the outcomes a process can have.*)
(***************************************************************************)
ItemStrings == {<<"a">>, <<"i", "t", "'", "s">>}

StringInputs == {Absent, Num, Str(<<>>)} \cup {Str(s) : s \in ItemStrings}

FormatInputs == {Absent, Num, Str(<<"j", "s", "o", "n">>)} \cup {Str(f) : f \in Formats}

BooleanInputs == {Absent, Bool(TRUE), Bool(FALSE), Str(<<"y", "e", "s">>)}

\* the values a client may send for a parameter declared with `rule`
InputsFor(rule) ==
  CASE rule.kind = "string" -> StringInputs
    [] rule.kind = "enum" -> FormatInputs
    [] OTHER -> BooleanInputs

\* every parameter object a client may send to `tool`
RequestsFor(tool) ==
  LET schema == inputSchema(tool)
      sent == {f \in [DOMAIN schema -> StringInputs \cup FormatInputs \cup BooleanInputs] :
                 \A k \in DOMAIN schema : f[k] \in InputsFor(schema[k])}
  IN  {[k \in ParamNames |-> IF k \in DOMAIN schema THEN f[k] ELSE Absent] : f \in sent}

\* fragments the output of the CLI is put together from
OutFrags == {HookScheme, <<"a">>, <<" ">>, <<"'">>}

RECURSIVE TextsUpTo(_)
TextsUpTo(n) ==
  IF n = 0 THEN {<<>>}
  ELSE LET shorter == TextsUpTo(n - 1)
       IN  shorter \cup {t \o f : t \in shorter, f \in OutFrags}

\* standard output of a process that exits with status zero
Stdouts == TextsUpTo(MaxFrags)

\* standard output of a process that fails
FailStdouts == {<<>>, <<"o", "u", "t">>}

\* standard error of a process that exits with status zero
WarnStderrs == {<<>>, <<"w", "a", "r", "n", "i", "n", "g", "\n">>}

\* standard error of a process that fails
Stderrs == {<<>>, <<" ", "\n">>, <<"H", "o", "o", "k", "m", "a", "r", "k", " ", "i", "s", " ", "n", "o", "t", " ", "r", "u", "n", "n", "i", "n", "g", "\n">>}

\* two runs of the server: one that receives a history of calls, and one
\* started afresh that receives a single call
Servers == {"main", "fresh"}

Capacity(s) == IF s = "main" THEN MaxCalls ELSE 1

(***************************************************************************)
(* Actions.                                                                *)
(***************************************************************************)
Init ==
  /\ pc = "idle"
  /\ call = NoCall
  /\ data = NoParams
  /\ args = <<>>
  /\ cmd = <<>>
  /\ procArgv = <<>>
  /\ elapsed = 0
  /\ outcome = NoOutcome
  /\ result = NoResult
  /\ response = NoResponse
  /\ spawned = 0
  /\ escPc = "off"
  /\ escIn = <<>>
  /\ escCmd = <<>>
  /\ escOut = NoParse
  /\ session = [s \in Servers |-> <<>>]
  /\ order = [s \in Servers |-> <<>>]
  /\ replies = [s \in Servers |-> <<>>]

\* the transport delivers a call
Deliver ==
  /\ pc = "idle"
  /\ \E tool \in Tools : \E params \in RequestsFor(tool) :
       call' = [tool |-> tool, params |-> params]
  /\ pc' = "received"
  /\ UNCHANGED <<data, args, cmd, procArgv, elapsed, outcome, result, response, spawned>>
  /\ UNCHANGED <<escVars, sessVars>>

\* the parameters fail the tool's inputSchema: the callback is not called
Reject ==
  /\ pc = "received"
  /\ ~Validate(call.tool, call.params).ok
  /\ response' = Rejected
  /\ pc' = "done"
  /\ UNCHANGED <<call, data, args, cmd, procArgv, elapsed, outcome, result, spawned>>
  /\ UNCHANGED <<escVars, sessVars>>

\* the callback runs up to execSync: it builds the argument vector, runHook
\* builds the command line, and execSync spawns the shell and blocks
Invoke ==
  /\ pc = "received"
  /\ Validate(call.tool, call.params).ok
  /\ data' = Validate(call.tool, call.params).data
  /\ args' = HandlerArgs(call.tool, data')
  /\ cmd' = CommandLine(args')
  /\ procArgv' = ShellParse(cmd').words
  /\ elapsed' = 0
  /\ spawned' = spawned + 1
  /\ pc' = "exec"
  /\ UNCHANGED <<call, outcome, result, response>>
  /\ UNCHANGED <<escVars, sessVars>>

\* a plausible slip: execSync is called without the timeout option
TimeoutNever(ms) == FALSE

\* whether execSync's timeout has elapsed after ms milliseconds
TimeoutElapsed(ms) == ms >= TIMEOUT_MS

\* a plausible slip: a failed command is run a second time before the
\* failure is reported
FinishWithRetry(o) ==
  IF o.kind # "exit0" /\ spawned < 2
    THEN /\ spawned' = spawned + 1
         /\ elapsed' = 0
         /\ UNCHANGED <<pc, call, data, args, cmd, procArgv, outcome, result, response>>
         /\ UNCHANGED <<escVars, sessVars>>
    ELSE /\ outcome' = o
         /\ result' = runHook(args, o)
         /\ response' = HandlerResponse(call.tool, data, result')
         /\ elapsed' = 0
         /\ pc' = "done"
         /\ UNCHANGED <<call, data, args, cmd, procArgv, spawned>>
         /\ UNCHANGED <<escVars, sessVars>>

\* execSync returns or throws, runHook returns or throws, and the callback
\* runs to its return: runHook calls execSync once and its catch block
\* throws, and no handler calls runHook again
Finish(o) ==
  /\ outcome' = o
  /\ result' = runHook(args, o)
  /\ response' = HandlerResponse(call.tool, data, result')
  /\ elapsed' = 0
  /\ pc' = "done"
  /\ UNCHANGED <<call, data, args, cmd, procArgv, spawned>>
  /\ UNCHANGED <<escVars, sessVars>>

\* the shell cannot be started
SpawnFail ==
  /\ pc = "exec"
  /\ elapsed = 0
  /\ Finish([kind |-> "spawnfail", stdout |-> <<>>, stderr |-> <<>>])

\* time passes while the child process runs
Tick ==
  /\ pc = "exec"
  /\ elapsed < TIMEOUT_MS
  /\ elapsed' = IF elapsed + TickMs > TIMEOUT_MS THEN TIMEOUT_MS ELSE elapsed + TickMs
  /\ UNCHANGED <<pc, call, data, args, cmd, procArgv, outcome, result, response, spawned>>
  /\ UNCHANGED <<escVars, sessVars>>

\* the child process exits with status zero
ExitZero ==
  /\ pc = "exec"
  /\ ~TimeoutElapsed(elapsed)
  /\ \E out \in Stdouts, err \in WarnStderrs :
       Finish([kind |-> "exit0", stdout |-> out, stderr |-> err])

\* the child process exits with another status
ExitNonZero ==
  /\ pc = "exec"
  /\ ~TimeoutElapsed(elapsed)
  /\ \E out \in FailStdouts, err \in Stderrs :
       Finish([kind |-> "nonzero", stdout |-> out, stderr |-> err])

\* the timeout elapses and execSync kills the child process
ProcTimeout ==
  /\ pc = "exec"
  /\ TimeoutElapsed(elapsed)
  /\ \E out \in FailStdouts, err \in Stderrs :
       Finish([kind |-> "timeout", stdout |-> out, stderr |-> err])

\* the response is sent; nothing of the call is kept
Return ==
  /\ pc = "done"
  /\ pc' = "idle"
  /\ call' = NoCall
  /\ data' = NoParams
  /\ args' = <<>>
  /\ cmd' = <<>>
  /\ procArgv' = <<>>
  /\ elapsed' = 0
  /\ outcome' = NoOutcome
  /\ result' = NoResult
  /\ response' = NoResponse
  /\ spawned' = 0
  /\ UNCHANGED <<escVars, sessVars>>

Next ==
  \/ Deliver
  \/ Reject
  \/ Invoke
  \/ SpawnFail
  \/ Tick
  \/ ExitZero
  \/ ExitNonZero
  \/ ProcTimeout
  \/ Return

Spec == Init /\ [][Next]_vars

\* one call, from its delivery to its response
CallNext ==
  \/ Deliver
  \/ Reject
  \/ Invoke
  \/ SpawnFail
  \/ Tick
  \/ ExitZero
  \/ ExitNonZero
  \/ ProcTimeout

\* one call under the scheduling execSync gives its child process: time
\* advances while the child runs, and execSync kills a child whose timeout
\* has elapsed.  Nothing makes a child process exit on its own.
LiveSpec ==
  /\ Init
  /\ [][CallNext]_vars
  /\ WF_vars(Tick)
  /\ WF_vars(ProcTimeout)

(***************************************************************************)
(* The round trip of shellEscape through the shell, on its own: the words  *)
(* are drawn from all strings over EscAlphabet up to MaxLen characters.    *)
(***************************************************************************)
EscAlphabet == {"a", "'", " ", "\\", "$", "\""}

RECURSIVE StringsUpTo(_)
StringsUpTo(n) ==
  IF n = 0 THEN {<<>>}
  ELSE LET shorter == StringsUpTo(n - 1)
       IN  shorter \cup {Append(t, c) : t \in shorter, c \in EscAlphabet}

EscStrings == StringsUpTo(MaxLen)

EscSeconds == {<<>>, <<"'">>, <<"a", " ", "b">>}

EscInit ==
  /\ pc = "idle"
  /\ call = NoCall
  /\ data = NoParams
  /\ args = <<>>
  /\ cmd = <<>>
  /\ procArgv = <<>>
  /\ elapsed = 0
  /\ outcome = NoOutcome
  /\ result = NoResult
  /\ response = NoResponse
  /\ spawned = 0
  /\ escPc = "input"
  /\ escIn \in {<<s>> : s \in EscStrings} \cup {<<s, t>> : s \in EscStrings, t \in EscSeconds}
  /\ escCmd = <<>>
  /\ escOut = NoParse
  /\ session = [s \in Servers |-> <<>>]
  /\ order = [s \in Servers |-> <<>>]
  /\ replies = [s \in Servers |-> <<>>]

\* the words are escaped and joined as runHook does
EscBuild ==
  /\ escPc = "input"
  /\ escCmd' = EscapeAndJoin(escIn)
  /\ escPc' = "built"
  /\ UNCHANGED <<escIn, escOut>>
  /\ UNCHANGED <<callVars, sessVars>>

\* the shell splits the command line into words
EscParse ==
  /\ escPc = "built"
  /\ escOut' = ShellParse(escCmd)
  /\ escPc' = "parsed"
  /\ UNCHANGED <<escIn, escCmd>>
  /\ UNCHANGED <<callVars, sessVars>>

EscNext == EscBuild \/ EscParse

EscSpec == EscInit /\ [][EscNext]_vars

(***************************************************************************)
(* Several calls in one server process.  The transport hands every request *)
(* to the server as it arrives; a handler runs on the one JavaScript       *)
(* thread and, from the call of the callback to its return, never yields:  *)
(* execSync blocks the thread while the child process runs.  No handler    *)
(* reads or writes anything outside its own locals, so an entry of the     *)
(* session is computed from the entry alone.                               *)
(***************************************************************************)
\* the calls drawn for a session: two valid ones and one that fails its schema
SessionCalls ==
  {[tool |-> "hookmark_link", params |-> [NoParams EXCEPT !.item = Str(<<"a">>)]],
   [tool |-> "hookmark_list", params |-> NoParams],
   [tool |-> "hookmark_connect", params |-> [NoParams EXCEPT !.item_a = Str(<<"a">>)]]}

\* the outcomes drawn for a process of a session
SessionOutcomes ==
  {[kind |-> "exit0", stdout |-> <<>>, stderr |-> <<>>],
   [kind |-> "exit0", stdout |-> HookScheme \o <<"a", "\n">>, stderr |-> <<>>],
   [kind |-> "nonzero", stdout |-> <<>>, stderr |-> <<"H", "o", "o", "k", "m", "a", "r", "k", " ", "i", "s", " ", "n", "o", "t", " ", "r", "u", "n", "n", "i", "n", "g", "\n">>],
   [kind |-> "timeout", stdout |-> <<>>, stderr |-> <<>>]}

\* a call that was delivered and not handled yet
Pending(c) ==
  [call |-> c, pc |-> "pending", data |-> NoParams, args |-> <<>>,
   outcome |-> NoOutcome, result |-> NoResult, response |-> NoResponse]

\* a plausible slip: exec with a callback in place of execSync, so that the
\* thread is free while a child process runs
EventLoopAlwaysFree(s) == TRUE

\* the JavaScript thread of server s is not blocked in execSync
EventLoopFree(s) == \A j \in DOMAIN session[s] : session[s][j].pc # "exec"

\* the client sends a call to server s
SDeliver(s) ==
  /\ Len(session[s]) < Capacity(s)
  /\ \E c \in SessionCalls :
       session' = [session EXCEPT ![s] = Append(@, Pending(c))]
  /\ UNCHANGED <<order, replies>>
  /\ UNCHANGED <<callVars, escVars>>

\* call i of server s fails its inputSchema: the callback is not called
SReject(s, i) ==
  /\ i \in DOMAIN session[s]
  /\ session[s][i].pc = "pending"
  /\ EventLoopFree(s)
  /\ ~Validate(session[s][i].call.tool, session[s][i].call.params).ok
  /\ session' = [session EXCEPT ![s][i].pc = "done", ![s][i].response = Rejected]
  /\ order' = [order EXCEPT ![s] = Append(@, i)]
  /\ replies' = [replies EXCEPT ![s] = Append(@, i)]
  /\ UNCHANGED <<callVars, escVars>>

\* the callback of call i runs up to execSync, which spawns and blocks
SInvoke(s, i) ==
  /\ i \in DOMAIN session[s]
  /\ session[s][i].pc = "pending"
  /\ EventLoopFree(s)
  /\ Validate(session[s][i].call.tool, session[s][i].call.params).ok
  /\ session' =
       [session EXCEPT
          ![s][i].pc = "exec",
          ![s][i].data = Validate(session[s][i].call.tool, session[s][i].call.params).data,
          ![s][i].args =
            HandlerArgs(session[s][i].call.tool,
                        Validate(session[s][i].call.tool, session[s][i].call.params).data)]
  /\ order' = [order EXCEPT ![s] = Append(@, i)]
  /\ UNCHANGED replies
  /\ UNCHANGED <<callVars, escVars>>

\* the child process of call i ends with outcome o: execSync returns or
\* throws, and the callback runs to its return
SFinish(s, i) ==
  /\ i \in DOMAIN session[s]
  /\ session[s][i].pc = "exec"
  /\ \E o \in SessionOutcomes :
       session' =
         [session EXCEPT
            ![s][i].pc = "done",
            ![s][i].outcome = o,
            ![s][i].result = runHook(session[s][i].args, o),
            ![s][i].response =
              HandlerResponse(session[s][i].call.tool, session[s][i].data,
                              runHook(session[s][i].args, o))]
  /\ replies' = [replies EXCEPT ![s] = Append(@, i)]
  /\ UNCHANGED order
  /\ UNCHANGED <<callVars, escVars>>

SessionNext ==
  \/ \E s \in Servers : SDeliver(s)
  \/ \E s \in Servers : \E i \in 1..MaxCalls : SReject(s, i)
  \/ \E s \in Servers : \E i \in 1..MaxCalls : SInvoke(s, i)
  \/ \E s \in Servers : \E i \in 1..MaxCalls : SFinish(s, i)

SessionSpec == Init /\ [][SessionNext]_vars

(***************************************************************************)
(* Properties.                                                             *)
(***************************************************************************)
\* the call's handler has called runHook
Invoked == pc \in {"exec", "done"} /\ spawned > 0

\* the call's handler has returned after a process that exited with status zero
Succeeded == pc = "done" /\ outcome.kind = "exit0"

\* the call's handler has returned after the invoker raised a failure
Failed == pc = "done" /\ outcome.kind \in {"nonzero", "timeout", "spawnfail"}

\* the parameter was sent as a string
Given(v) == v.t = "string"

\* C1: for every string s, the shell parses shellEscape(s) into exactly the
\* one word s; and the command line built from a sequence of words parses
\* back into exactly that sequence, with the same length.
C1_EscapeRoundTrip ==
  escPc = "parsed" =>
    /\ escOut.ok
    /\ Len(escOut.words) = Len(escIn)
    /\ escOut.words = escIn
    /\ \A i \in 1..Len(escIn) :
         ShellParse(shellEscape(escIn[i])) = [ok |-> TRUE, words |-> <<escIn[i]>>]

\* C1 witness: two words, the first with a single quote, a space and a
\* shell metacharacter, went through the round trip.
C1_Witness ==
  /\ escPc = "parsed"
  /\ escIn = <<(<<"'", " ", "$">>), (<<"'">>)>>
  /\ escOut.words = escIn

\* the parameters the claim calls required, per operation
C2_Required(tool) ==
  CASE tool = "hookmark_link" -> {"item"}
    [] tool = "hookmark_connect" -> {"item_a", "item_b"}
    [] tool = "hookmark_list" -> {}
    [] tool = "hookmark_search" -> {"query"}
    [] tool = "hookmark_remove" -> {"item_a", "item_b"}
    [] tool = "hookmark_clone" -> {"source", "destination"}
    [] tool = "hookmark_frontmost" -> {"app"}
    [] OTHER -> {}

C2_OptionalStrings(tool) == IF tool = "hookmark_list" THEN {"item"} ELSE {}

C2_Booleans(tool) ==
  CASE tool = "hookmark_list" -> {"files_only"}
    [] tool = "hookmark_search" -> {"names_only", "files_only"}
    [] tool = "hookmark_frontmost" -> {"markdown"}
    [] OTHER -> {}

C2_HasFormat(tool) == tool \in {"hookmark_list", "hookmark_search"}

\* the parameters fail the declared schema, in the claim's words
C2_FailsSchema(tool, p) ==
  \/ \E k \in C2_Required(tool) : p[k].t = "undefined"
  \/ \E k \in C2_Required(tool) : p[k].t = "string" /\ p[k].s = <<>>
  \/ \E k \in C2_Required(tool) \cup C2_OptionalStrings(tool) :
       p[k].t \notin {"undefined", "string"}
  \/ \E k \in C2_Booleans(tool) : p[k].t \notin {"undefined", "boolean"}
  \/ /\ C2_HasFormat(tool)
     /\ p.format.t # "undefined"
     /\ \/ p.format.t # "string"
        \/ p.format.s \notin {<<"p", "a", "t", "h", "s">>, <<"h", "o", "o", "k", "s">>, <<"m", "a", "r", "k", "d", "o", "w", "n">>, <<"v", "e", "r", "b", "o", "s", "e">>}

\* C2: a call whose parameters fail the declared schema never reaches the
\* invoker: no command line is built and no child process is spawned for it.
C2_InvalidNeverSpawns ==
  (pc # "idle" /\ C2_FailsSchema(call.tool, call.params)) =>
    /\ spawned = 0
    /\ pc # "exec"
    /\ cmd = <<>>
    /\ outcome = NoOutcome

\* C2 witness: a search with a format outside the enumeration was rejected.
C2_Witness ==
  /\ pc = "done"
  /\ call.tool = "hookmark_search"
  /\ call.params.query = Str(<<"a">>)
  /\ call.params.format = Str(<<"j", "s", "o", "n">>)
  /\ response = Rejected
  /\ spawned = 0

\* C3: whenever the invoker raises a failure (non-zero exit, timeout, spawn
\* failure) the handler returns a tool result with isError set whose text is
\* "Error: " followed by the failure's message.
C3_FailureIsErrorResponse ==
  Failed =>
    /\ result.threw
    /\ response.kind = "result"
    /\ response.isError
    /\ response.text = <<"E", "r", "r", "o", "r", ":", " ">> \o result.value

\* C3 witness: connect, exit non-zero with stderr "Hookmark is not running".
C3_Witness ==
  /\ Failed
  /\ call.tool = "hookmark_connect"
  /\ outcome.kind = "nonzero"
  /\ response.isError
  /\ response.text = <<"E", "r", "r", "o", "r", ":", " ", "H", "o", "o", "k", "m", "a", "r", "k", " ", "i", "s", " ", "n", "o", "t", " ", "r", "u", "n", "n", "i", "n", "g">>

\* the generic message naming the failed sub-command
C4_Generic == <<"h", "o", "o", "k", " ">> \o args[1] \o <<" ", "f", "a", "i", "l", "e", "d">>

\* C4 as stated: on non-zero exit or timeout the failure carries the trimmed
\* stderr if non-empty, else the trimmed stdout if non-empty, else the
\* generic message.
C4_StdoutFallback ==
  (pc = "done" /\ outcome.kind \in {"nonzero", "timeout"}) =>
    result.value =
      IF Trim(outcome.stderr) # <<>> THEN Trim(outcome.stderr)
      ELSE IF Trim(outcome.stdout) # <<>> THEN Trim(outcome.stdout)
      ELSE C4_Generic

\* C4 amended: on non-zero exit or timeout the failure carries the trimmed
\* stderr if that is non-empty; if stderr is empty it carries the message of
\* the error the process runner raised ("Command failed: " and the command
\* line, or the runner's timeout message), never stdout; the generic message
\* is carried only when stderr is non-empty but all white space.
C4_MessageFallback ==
  (pc = "done" /\ outcome.kind \in {"nonzero", "timeout"}) =>
    /\ result.threw
    /\ result.value =
         IF Trim(outcome.stderr) # <<>> THEN Trim(outcome.stderr)
         ELSE IF outcome.stderr # <<>> THEN C4_Generic
         ELSE IF outcome.kind = "nonzero" THEN <<"C", "o", "m", "m", "a", "n", "d", " ", "f", "a", "i", "l", "e", "d", ":", " ">> \o cmd
         ELSE <<"s", "p", "a", "w", "n", "S", "y", "n", "c", " ", "/", "b", "i", "n", "/", "s", "h", " ", "E", "T", "I", "M", "E", "D", "O", "U", "T">>

\* C4 witness: exit non-zero, nothing on stderr, text on stdout: the failure
\* carries the runner's message and not the stdout text.
C4_Witness ==
  /\ pc = "done"
  /\ outcome.kind = "nonzero"
  /\ outcome.stderr = <<>>
  /\ outcome.stdout = <<"o", "u", "t">>
  /\ result.value = <<"C", "o", "m", "m", "a", "n", "d", " ", "f", "a", "i", "l", "e", "d", ":", " ">> \o cmd
  /\ ~Contains(result.value, <<"o", "u", "t">>)

\* the fixed sub-command token of each operation
SubCommand(tool) ==
  CASE tool = "hookmark_link" -> <<"c", "l", "i", "p">>
    [] tool = "hookmark_connect" -> <<"l", "i", "n", "k">>
    [] tool = "hookmark_list" -> <<"l", "i", "s", "t">>
    [] tool = "hookmark_search" -> <<"f", "i", "n", "d">>
    [] tool = "hookmark_remove" -> <<"r", "e", "m", "o", "v", "e">>
    [] tool = "hookmark_clone" -> <<"c", "l", "o", "n", "e">>
    [] tool = "hookmark_frontmost" -> <<"f", "r", "o", "m">>
    [] OTHER -> <<>>

\* one standalone token for a boolean that is true, nothing otherwise
C5_Flag(v, token) == IF v = Bool(TRUE) THEN <<token>> ELSE <<>>

\* the flag options of a call, in declared order; a format that was not
\* sent has the operation's default
C5_FormatOf(tool, p) ==
  IF p.format.t = "string" THEN p.format.s
  ELSE IF tool = "hookmark_list" THEN <<"p", "a", "t", "h", "s">> ELSE <<"m", "a", "r", "k", "d", "o", "w", "n">>

C5_Flags(tool, p) ==
  CASE tool = "hookmark_list" ->
         <<<<"-", "o">>, C5_FormatOf(tool, p)>> \o C5_Flag(p.files_only, <<"-", "-", "f", "i", "l", "e", "s", "_", "o", "n", "l", "y">>)
    [] tool = "hookmark_search" ->
         <<<<"-", "o">>, C5_FormatOf(tool, p)>> \o C5_Flag(p.names_only, <<"-", "-", "n", "a", "m", "e", "s", "_", "o", "n", "l", "y">>)
           \o C5_Flag(p.files_only, <<"-", "-", "f", "i", "l", "e", "s", "_", "o", "n", "l", "y">>)
    [] tool = "hookmark_frontmost" -> C5_Flag(p.markdown, <<"-", "-", "m", "a", "r", "k", "d", "o", "w", "n">>)
    [] OTHER -> <<>>

\* the positional operands of a call that were sent, in declared order
C5_Operands(tool, p) ==
  CASE tool = "hookmark_link" -> <<p.item.s>>
    [] tool = "hookmark_connect" -> <<p.item_a.s, p.item_b.s>>
    [] tool = "hookmark_list" -> IF Given(p.item) THEN <<p.item.s>> ELSE <<>>
    [] tool = "hookmark_search" -> <<p.query.s>>
    [] tool = "hookmark_remove" -> <<p.item_a.s, p.item_b.s>>
    [] tool = "hookmark_clone" -> <<p.source.s, p.destination.s>>
    [] tool = "hookmark_frontmost" -> <<p.app.s>>
    [] OTHER -> <<>>

\* the same, with list's item an operand only when it is not empty
C5_NonEmptyOperands(tool, p) ==
  IF tool = "hookmark_list" /\ p.item = Str(<<>>) THEN <<>> ELSE C5_Operands(tool, p)

\* C5 as stated: the argument vector is the sub-command token, then the flag
\* options, then every positional operand that was sent, in declared order.
C5_TokenFlagsOperands ==
  Invoked =>
    args = <<SubCommand(call.tool)>> \o C5_Flags(call.tool, call.params)
             \o C5_Operands(call.tool, call.params)

\* C5 amended: the argument vector is the sub-command token, then the flag
\* options, then the positional operands in declared order, where list's
\* item is an operand only when it is a non-empty string.
C5_TokenFlagsNonEmptyOperands ==
  Invoked =>
    args = <<SubCommand(call.tool)>> \o C5_Flags(call.tool, call.params)
             \o C5_NonEmptyOperands(call.tool, call.params)

\* C5 witness: frontmost(app, markdown = true) gives [from, --markdown, app].
C5_Witness ==
  /\ Invoked
  /\ call.tool = "hookmark_frontmost"
  /\ call.params.markdown = Bool(TRUE)
  /\ call.params.app = Str(<<"i", "t", "'", "s">>)
  /\ args = <<<<"f", "r", "o", "m">>, <<"-", "-", "m", "a", "r", "k", "d", "o", "w", "n">>, <<"i", "t", "'", "s">>>>

\* no optional parameter was sent
C6_NoOptionals(tool, p) ==
  \A k \in ParamNames \ C2_Required(tool) : p[k] = Absent

\* C6: for a call with valid required parameters and no optional parameters,
\* the first element after the binary path in the argument vector of the
\* child process is the operation's sub-command token.
C6_SubCommandFirst ==
  (Invoked /\ C6_NoOptionals(call.tool, call.params)) =>
    /\ Len(procArgv) >= 2
    /\ procArgv[1] = HOOK_CLI
    /\ procArgv[2] = SubCommand(call.tool)
    /\ args[1] = SubCommand(call.tool)

\* C6 witness: link with its item only runs [binary, clip, item].
C6_Witness ==
  /\ Invoked
  /\ call.tool = "hookmark_link"
  /\ C6_NoOptionals(call.tool, call.params)
  /\ procArgv = <<HOOK_CLI, <<"c", "l", "i", "p">>, <<"i", "t", "'", "s">>>>

\* text[i..j] is hook:// followed by one or more characters that are
\* neither white space nor a single or double quote
C7_IsUrl(text, i, j) ==
  /\ 1 <= i
  /\ j <= Len(text)
  /\ i + 7 <= j
  /\ SubSeq(text, i, i + 6) = <<"h", "o", "o", "k", ":", "/", "/">>
  /\ \A k \in (i + 7)..j : text[k] \notin {" ", "\t", "\n", "\r", "'", "\""}

C7_HasUrl(text) ==
  \E i \in 1..Len(text), j \in 1..Len(text) : C7_IsUrl(text, i, j)

\* u is the first match in text, and the longest one that starts there
C7_IsFirstMaximalUrl(text, u) ==
  \E i \in 1..Len(text), j \in 1..Len(text) :
    /\ C7_IsUrl(text, i, j)
    /\ u = SubSeq(text, i, j)
    /\ ~C7_IsUrl(text, i, j + 1)
    /\ \A i2 \in 1..(i - 1), j2 \in 1..Len(text) : ~C7_IsUrl(text, i2, j2)

\* C7: for link, when the CLI exits zero and its output contains a match of
\* hook:// followed by non-space, non-quote characters, the response is not
\* an error and its text is exactly the first, maximal match.
C7_LinkReturnsUrl ==
  (Succeeded /\ call.tool = "hookmark_link" /\ C7_HasUrl(outcome.stdout)) =>
    /\ response.kind = "result"
    /\ ~response.isError
    /\ C7_IsFirstMaximalUrl(outcome.stdout, response.text)

\* C7 witness: the output holds more than the URL, and only the URL is returned.
C7_Witness ==
  /\ Succeeded
  /\ call.tool = "hookmark_link"
  /\ outcome.stdout = <<"'", "h", "o", "o", "k", ":", "/", "/", "a">>
  /\ response.text = <<"h", "o", "o", "k", ":", "/", "/", "a">>

\* the captured output is empty once trimmed
EmptyOutput == Succeeded /\ Trim(outcome.stdout) = <<>>

\* C8: for list and search an empty output gives a non-empty message that is
\* not an error and contains the call's input: the item for list when an item
\* was sent ("No Hookmark bookmarks found." when none was), the query for
\* search.
C8_EmptyListSearchMessage ==
  (EmptyOutput /\ call.tool \in {"hookmark_list", "hookmark_search"}) =>
    /\ response.kind = "result"
    /\ ~response.isError
    /\ response.text # <<>>
    /\ call.tool = "hookmark_list" =>
         IF Given(call.params.item)
           THEN Contains(response.text, call.params.item.s)
           ELSE response.text = <<"N", "o", " ", "H", "o", "o", "k", "m", "a", "r", "k", " ", "b", "o", "o", "k", "m", "a", "r", "k", "s", " ", "f", "o", "u", "n", "d", ".">>
    /\ call.tool = "hookmark_search" =>
         Contains(response.text, call.params.query.s)

\* C8 witness: list of an item with empty output names the item.
C8_Witness ==
  /\ EmptyOutput
  /\ call.tool = "hookmark_list"
  /\ call.params.item = Str(<<"i", "t", "'", "s">>)
  /\ response.text = <<"N", "o", " ", "h", "o", "o", "k", "s", " ", "f", "o", "u", "n", "d", " ", "f", "o", "r", " ", "'", "i", "t", "'", "s", "'", ".">>

\* a timed-out command ended in the error response
C9_TimedOutIsError ==
  (pc = "done" /\ outcome.kind = "timeout") =>
    /\ response.kind = "result"
    /\ response.isError
    /\ StartsWith(response.text, <<"E", "r", "r", "o", "r", ":", " ">>)

\* C9: a command does not hang the call: a call whose command is running
\* eventually completes, a command that has run for the timeout ends as a
\* timeout, and a timed-out command ends in the error response, never in a
\* success response.
C9_TimeoutSurfaces ==
  /\ [](C9_TimedOutIsError)
  /\ (pc = "exec") ~> (pc = "done")
  /\ (pc = "exec" /\ elapsed >= TIMEOUT_MS) ~> (pc = "done" /\ outcome.kind = "timeout")

\* C9 witness: a command was killed at the timeout and the call completed
\* with the error response.
C9_Witness ==
  /\ pc = "done"
  /\ outcome.kind = "timeout"
  /\ response.isError
  /\ response.text = <<"E", "r", "r", "o", "r", ":", " ", "s", "p", "a", "w", "n", "S", "y", "n", "c", " ", "/", "b", "i", "n", "/", "s", "h", " ", "E", "T", "I", "M", "E", "D", "O", "U", "T">>

\* the parameters that identify what a call is about
C10_Inputs(tool) ==
  C2_Required(tool) \cup C2_OptionalStrings(tool)

\* C10: for every operation, exit zero with empty or white-space-only output
\* gives a response that is not an error and whose text is not empty and
\* contains every identifying input that was sent.
C10_EmptyOutputMessage ==
  EmptyOutput =>
    /\ response.kind = "result"
    /\ ~response.isError
    /\ response.text # <<>>
    /\ \A k \in C10_Inputs(call.tool) :
         Given(call.params[k]) => Contains(response.text, call.params[k].s)

\* C10 witness: clone with white-space-only output names source and destination.
C10_Witness ==
  /\ EmptyOutput
  /\ outcome.stdout = <<" ">>
  /\ call.tool = "hookmark_clone"
  /\ response.text = <<"C", "l", "o", "n", "e", "d", " ", "h", "o", "o", "k", "s", " ", "f", "r", "o", "m", " ", "'", "a", "'", " ", "t", "o", " ", "'", "i", "t", "'", "s", "'", ".">>

\* C11: a call that passes validation spawns exactly one child process,
\* whether the process succeeds, exits non-zero, times out or cannot be
\* started; no call ever has a second process.
C11_ExactlyOneSpawn ==
  /\ spawned <= 1
  /\ (pc \in {"exec", "done"} /\ ~C2_FailsSchema(call.tool, call.params)) => spawned = 1
  /\ (pc = "done" /\ outcome.kind \in {"exit0", "nonzero", "timeout", "spawnfail"}) =>
       spawned = 1

\* C11 witness: a list call whose command timed out has completed with one
\* process spawned.
C11_Witness ==
  /\ pc = "done"
  /\ call.tool = "hookmark_list"
  /\ ~C2_FailsSchema(call.tool, call.params)
  /\ outcome.kind = "timeout"
  /\ response.isError
  /\ spawned = 1

\* v is s without its leading and trailing white space: s is a run of white
\* space, then v, then a run of white space, and v neither starts nor ends
\* with white space
C13_IsTrimmed(v, s) ==
  \E i, j \in 0..Len(s) :
    /\ i + j <= Len(s)
    /\ v = SubSeq(s, i + 1, Len(s) - j)
    /\ \A k \in 1..i : s[k] \in WhiteSpace
    /\ \A k \in (Len(s) - j + 1)..Len(s) : s[k] \in WhiteSpace
    /\ v # <<>> => (v[1] \notin WhiteSpace /\ v[Len(v)] \notin WhiteSpace)

\* the operations that return the output of the command as it is
C13_PassThrough ==
  {"hookmark_connect", "hookmark_list", "hookmark_search", "hookmark_remove",
   "hookmark_clone", "hookmark_frontmost"}

\* C13: on exit status zero the invoker returns standard output without its
\* leading and trailing white space; for connect, list, search, remove, clone
\* and frontmost a non-empty trimmed output is the response text, unchanged,
\* and isError is not set.
C13_TrimmedOutputReturned ==
  Succeeded =>
    /\ ~result.threw
    /\ C13_IsTrimmed(result.value, outcome.stdout)
    /\ (call.tool \in C13_PassThrough /\ result.value # <<>>) =>
         /\ response.kind = "result"
         /\ response.text = result.value
         /\ ~response.isError

\* C13 witness: remove printed " a " and the response text is "a".
C13_Witness ==
  /\ Succeeded
  /\ call.tool = "hookmark_remove"
  /\ outcome.stdout = <<" ", "a", " ">>
  /\ result.value = <<"a">>
  /\ response.text = <<"a">>
  /\ ~response.isError

\* a list call whose item was sent as the empty string and whose other
\* parameters are valid
C14_EmptyItemList ==
  /\ call.tool = "hookmark_list"
  /\ call.params.item = Str(<<>>)
  /\ ~C2_FailsSchema(call.tool, call.params)

\* the same parameters with the item left out
C14_WithoutItem == [call.params EXCEPT !.item = Absent]

\* C14: a list call with the empty string as item passes validation; its
\* argument vector has no positional operand and is the one of the call
\* without an item; its response is the one of the call without an item, and
\* on empty output the text is "No Hookmark bookmarks found.".
C14_EmptyItemAsAbsent ==
  C14_EmptyItemList =>
    /\ Validate(call.tool, call.params).ok
    /\ pc = "done" => (response.kind = "result" /\ spawned = 1)
    /\ Invoked =>
         /\ args = <<<<"l", "i", "s", "t">>>> \o C5_Flags(call.tool, call.params)
         /\ args = HandlerArgs(call.tool, Validate(call.tool, C14_WithoutItem).data)
    /\ pc = "done" =>
         response = HandlerResponse(call.tool,
                                    Validate(call.tool, C14_WithoutItem).data, result)
    /\ EmptyOutput => response = textResponse(<<"N", "o", " ", "H", "o", "o", "k", "m", "a", "r", "k", " ", "b", "o", "o", "k", "m", "a", "r", "k", "s", " ", "f", "o", "u", "n", "d", ".">>)

\* C14 witness: list with item "" ran "list -o paths" and printed nothing.
C14_Witness ==
  /\ C14_EmptyItemList
  /\ EmptyOutput
  /\ args = <<<<"l", "i", "s", "t">>, <<"-", "o">>, <<"p", "a", "t", "h", "s">>>>
  /\ response.text = <<"N", "o", " ", "H", "o", "o", "k", "m", "a", "r", "k", " ", "b", "o", "o", "k", "m", "a", "r", "k", "s", " ", "f", "o", "u", "n", "d", ".">>
  /\ ~response.isError

\* call i of server s has been handled up to the spawn of its process
C12_Handled(s, i) == session[s][i].pc \in {"exec", "done"}

C15_InFlight(s) == {i \in DOMAIN session[s] : session[s][i].pc = "exec"}

\* p is a prefix of q
C15_IsPrefix(p, q) == Len(p) <= Len(q) /\ p = SubSeq(q, 1, Len(p))

\* C15: in a server process at most one child process is in flight, however
\* many calls were delivered; a call's process is spawned only when every
\* call handled before it has its response; and the responses come in the
\* order in which the calls were handled.
C15_OneInFlightInOrder ==
  \A s \in Servers :
    /\ Cardinality(C15_InFlight(s)) <= 1
    /\ \A k \in 1..(Len(order[s]) - 1) :
         /\ session[s][order[s][k]].pc = "done"
         /\ session[s][order[s][k]].response # NoResponse
    /\ \A i \in C15_InFlight(s) : order[s][Len(order[s])] = i
    /\ C15_IsPrefix(replies[s], order[s])

\* C15 witness: two calls were delivered; the second one delivered was
\* handled first and has its response, the process of the other is running.
C15_Witness ==
  /\ Len(session["main"]) = 2
  /\ order["main"] = <<2, 1>>
  /\ replies["main"] = <<2>>
  /\ session["main"][2].pc = "done"
  /\ session["main"][2].outcome.kind = "timeout"
  /\ session["main"][1].pc = "exec"
  /\ session["main"][1].outcome = NoOutcome

=============================================================================
